---------------------------- MODULE Spec2Model ----------------------------
(***************************************************************************)
(* Model of the Metis price feed (src/src/price_feed.rs, src/src/models.rs) *)
(* of the Furucombo arbitrage scanner: the DEX Screener fetch / filter /    *)
(* convert / dedupe pipeline, the two lock-guarded caches of MetisPriceFeed *)
(* and the four operations of the PriceFeed trait; then the pure functions  *)
(* of models.rs, find_price_differences and the scan loop of               *)
(* src/src/main.rs and the fixture MockPriceFeed, each under a              *)
(* specification of its own.                                                *)
(*                                                                          *)
(* Strings are sequences of one-character strings, so that format!() is     *)
(* concatenation and Decimal::from_str is a parser.  A Decimal is an        *)
(* integer count of hundredths.  Time is in milliseconds.  Option and       *)
(* Result values are sequences: <<>> is None / Err, <<x>> is Some(x)/Ok(x). *)
(***************************************************************************)
EXTENDS Integers, Sequences, FiniteSets, TLC

VARIABLES
    feed,         \* upstream: search term -> response of GET /search?q=term
    now,          \* chrono::Utc::now(), milliseconds
    ticks,        \* how many times the clock has advanced (bounded)
    cache,        \* MetisPriceFeed.cache: key -> CachedPrice
    pairs_cache,  \* MetisPriceFeed.pairs_cache: Vec<TradingPair>
    cache_lock,   \* RwLock of cache: the task holding the write guard, or None
    pairs_lock,   \* RwLock of pairs_cache: the task holding the write guard, or None
    pc,           \* per task: position in the operation it is running
    term_i,       \* per task: index of the next search term of fetch_metis_pairs
    all_pairs,    \* per task: fetch_metis_pairs' all_pairs / the caller's `pairs`
    ins_i,        \* per task: index of the next insert of refresh's loop
    ret,          \* the call that returned in the last step, with its value
    pairs_by,     \* history: the operation that last wrote pairs_cache
    fetch_feed,   \* history, per task: the feed all requests of its fetch saw
    pairs_feed    \* history: the feed the stored snapshot was fetched from

vars == <<feed, now, ticks, cache, pairs_cache, cache_lock, pairs_lock, pc,
          term_i, all_pairs, ins_i, ret, pairs_by, fetch_feed, pairs_feed>>

---------------------------------------------------------------------------
(* Option / Result *)

None == <<>>

Some(x) == <<x>>

IsSome(o) == o # <<>>

Unwrap(o) == o[1]

\* Option::or
OptOr(a, b) == IF IsSome(a) THEN a ELSE b

\* Option::unwrap_or / Result::unwrap_or
UnwrapOr(o, d) == IF IsSome(o) THEN o[1] ELSE d

---------------------------------------------------------------------------
(* Bounds of the model *)

\* how many times the clock advances in one behaviour
MaxTicks == 2

\* the longest snapshot handed to find_price_differences
MaxSnapshot == 3

\* fractional digits the quotient of two Decimals keeps
DivDigits == 4

\* the longest list the feed of the scan loop holds
MaxListed == 2

\* fractional digits a Decimal of the model keeps
DecDigits == 2

---------------------------------------------------------------------------
(* Strings *)

S_metis == <<"m", "e", "t", "i", "s">>

S_netswap == <<"n", "e", "t", "s", "w", "a", "p">>

S_tethys == <<"t", "e", "t", "h", "y", "s">>

S_ethereum == <<"e", "t", "h">>

S_uniswap == <<"u", "n", "i">>

S_Metis == <<"M", "e", "t", "i", "s">>

\* token symbols: METIS, USDC, WETH
SymM == <<"M">>

SymU == <<"U">>

SymW == <<"W">>

Digits == <<"0", "1", "2", "3", "4", "5", "6", "7", "8", "9">>

IsDigit(c) == \E i \in 1..10 : Digits[i] = c

DigitVal(c) == (CHOOSE i \in 1..10 : Digits[i] = c) - 1

RECURSIVE Pow10(_)
Pow10(n) == IF n = 0 THEN 1 ELSE 10 * Pow10(n - 1)

\* the units of one whole in a Decimal of the model
Scale == Pow10(DecDigits)

RECURSIVE DigitsValue(_)
DigitsValue(s) ==
    IF s = <<>> THEN 0
    ELSE 10 * DigitsValue(SubSeq(s, 1, Len(s) - 1)) + DigitVal(s[Len(s)])

RECURSIVE NatToStr(_)
NatToStr(n) ==
    IF n < 10 THEN <<Digits[n + 1]>>
    ELSE NatToStr(n \div 10) \o <<Digits[(n % 10) + 1]>>

\* f64::to_string of a whole number
F64ToString(v) == IF v < 0 THEN <<"-">> \o NatToStr(-v) ELSE NatToStr(v)

\* Decimal::from_str: optional sign, digits, optional point and digits.
\* Ok(value in units of 10^-DecDigits) or Err.
DecimalFromStr(s) ==
    LET signed == Len(s) > 0 /\ s[1] \in {"-", "+"}
        neg    == Len(s) > 0 /\ s[1] = "-"
        body   == IF signed THEN Tail(s) ELSE s
        dots   == {i \in 1..Len(body) : body[i] = "."}
        dot    == IF dots = {} THEN Len(body) + 1 ELSE CHOOSE i \in dots : TRUE
        ip     == SubSeq(body, 1, dot - 1)
        fp     == SubSeq(body, dot + 1, Len(body))
        wellformed ==
            /\ Len(body) > 0
            /\ Cardinality(dots) <= 1
            /\ \A i \in 1..Len(body) : body[i] = "." \/ IsDigit(body[i])
            /\ Len(ip) + Len(fp) > 0
            /\ Len(fp) <= DecDigits
        mag    == DigitsValue(ip) * Scale + DigitsValue(fp) * Pow10(DecDigits - Len(fp))
    IN  IF wellformed THEN Some(IF neg THEN 0 - mag ELSE mag) ELSE None

\* Decimal::from(n): a whole number as a Decimal
DecimalFrom(n) == n * Scale

DecimalZERO == DecimalFrom(0)


---------------------------------------------------------------------------
(* models.rs *)

\* Token::new (the fields the feed reads)
Token(symbol) == [symbol |-> symbol]

\* Exchange::new
Exchange(name, chain) == [name |-> name, chain |-> chain]

\* TradingPair::new
TradingPair(base_token, quote_token, exchange, price, liquidity) ==
    [base_token |-> base_token, quote_token |-> quote_token,
     exchange |-> exchange, price |-> price, liquidity |-> liquidity]

\* TradingPair::pair_id: format!("{}/{}", base, quote)
pair_id(pair) == pair.base_token.symbol \o <<"/">> \o pair.quote_token.symbol

\* a full_id that leaves the exchange out
full_id_without_exchange(pair) ==
    pair.base_token.symbol \o <<"/">> \o pair.quote_token.symbol

\* TradingPair::full_id: format!("{}:{}/{}", exchange, base, quote)
full_id(pair) ==
    pair.exchange.name \o <<":">> \o pair.base_token.symbol
        \o <<"/">> \o pair.quote_token.symbol

\* chrono::Duration::num_seconds: whole seconds, truncated toward zero
num_seconds(ms) == IF ms >= 0 THEN ms \div 1000 ELSE 0 - ((0 - ms) \div 1000)

\* is_stale with >= for >: an entry is stale once its age reaches max_age
is_stale_at_max_age(cached, max_age_seconds, t) ==
    num_seconds(t - cached.timestamp) >= max_age_seconds

\* is_stale on the exact age: no truncation to whole seconds
is_stale_exact_age(cached, max_age_seconds, t) ==
    t - cached.timestamp > max_age_seconds * 1000

\* CachedPrice::is_stale at clock reading t
is_stale(cached, max_age_seconds, t) ==
    num_seconds(t - cached.timestamp) > max_age_seconds

---------------------------------------------------------------------------
(* price_feed.rs: constants *)

\* the freshness window of get_price, seconds
PRICE_MAX_AGE == 60

\* the liquidity floor of convert_to_trading_pair, USD
MIN_LIQUIDITY == 1000

\* a list that holds the first term twice
search_terms_first_twice == <<S_metis, S_metis, S_netswap, S_tethys>>

\* let search_terms = vec!["metis", "netswap", "tethys"]
search_terms == <<S_metis, S_netswap, S_tethys>>

\* the literal of format!("DEX Screener - {}", name), kept in one piece
SourcePrefix == <<"DEX Screener - ">>

---------------------------------------------------------------------------
(* price_feed.rs: conversion of one DexScreenerPair *)

\* a DexScreenerPair: price_usd, price_native are Option<String>; liquidity
\* is Option<LiquidityData>, whose usd is Option<f64> (whole dollars here)
DexScreenerPair(chain_id, dex_id, base, quote, price_usd, price_native, liquidity) ==
    [chain_id |-> chain_id, dex_id |-> dex_id, base_token |-> [symbol |-> base],
     quote_token |-> [symbol |-> quote], price_usd |-> price_usd,
     price_native |-> price_native, liquidity |-> liquidity]

LiquidityData(usd) == [usd |-> usd]

\* liquidity.and_then(|l| l.usd).map(|v| Decimal::from_str(&v.to_string())
\*     .unwrap_or(ZERO)).unwrap_or(ZERO)
liquidity_usd(data) ==
    LET usd == IF IsSome(data.liquidity) THEN Unwrap(data.liquidity).usd ELSE None
    IN  IF IsSome(usd)
        THEN UnwrapOr(DecimalFromStr(F64ToString(Unwrap(usd))), DecimalZERO)
        ELSE DecimalZERO

\* the price convert_to_trading_pair parses: Err when there is no price string
parsed_price(data) ==
    LET price_str == OptOr(data.price_usd, data.price_native)
    IN  IF IsSome(price_str)
        THEN Some(UnwrapOr(DecimalFromStr(Unwrap(price_str)), DecimalZERO))
        ELSE None

\* convert_to_trading_pair rejecting a liquidity equal to the floor
convert_to_trading_pair_above_floor(data) ==
    IF ~IsSome(parsed_price(data)) THEN None
    ELSE IF Unwrap(parsed_price(data)) <= DecimalZERO THEN None
    ELSE IF liquidity_usd(data) <= DecimalFrom(MIN_LIQUIDITY) THEN None
    ELSE Some(TradingPair(Token(data.base_token.symbol),
                          Token(data.quote_token.symbol),
                          Exchange(data.dex_id, S_Metis),
                          Unwrap(parsed_price(data)),
                          liquidity_usd(data)))

\* MetisPriceFeed::convert_to_trading_pair: Ok(pair) or Err
convert_to_trading_pair(data) ==
    IF ~IsSome(parsed_price(data)) THEN None
    ELSE IF Unwrap(parsed_price(data)) <= DecimalZERO THEN None
    ELSE IF liquidity_usd(data) < DecimalFrom(MIN_LIQUIDITY) THEN None
    ELSE Some(TradingPair(Token(data.base_token.symbol),
                          Token(data.quote_token.symbol),
                          Exchange(data.dex_id, S_Metis),
                          Unwrap(parsed_price(data)),
                          liquidity_usd(data)))

\* the filter without its chain test
passes_filter_any_chain(pair_data) ==
    pair_data.dex_id = S_netswap \/ pair_data.dex_id = S_tethys

\* the chain / exchange filter of fetch_metis_pairs
passes_filter(pair_data) ==
    /\ pair_data.chain_id = S_metis
    /\ pair_data.dex_id = S_netswap \/ pair_data.dex_id = S_tethys

\* a duplicate test that never finds one
is_duplicate_never(acc, pair) == FALSE

\* the duplicate test of fetch_metis_pairs
is_duplicate(acc, pair) == \E i \in 1..Len(acc) : full_id(acc[i]) = full_id(pair)

\* the body of `for pair_data in pairs`, for one record
push_record(acc, pair_data) ==
    IF ~passes_filter(pair_data) THEN acc
    ELSE LET r == convert_to_trading_pair(pair_data)
         IN  IF ~IsSome(r) THEN acc
             ELSE IF is_duplicate(acc, Unwrap(r)) THEN acc
             ELSE Append(acc, Unwrap(r))

RECURSIVE push_records(_, _)
push_records(acc, pairs) ==
    IF pairs = <<>> THEN acc
    ELSE push_records(push_record(acc, Head(pairs)), Tail(pairs))

\* a fetch that a failed search empties
fetch_term_failure_clears(acc, response) ==
    IF response.kind # "ok" THEN <<>>
    ELSE push_records(acc, UnwrapOr(response.pairs, <<>>))

\* one iteration of `for term in search_terms`: a failed request, a
\* non-success status and an undecodable body all continue with the next term
fetch_term(acc, response) ==
    IF response.kind # "ok" THEN acc
    ELSE push_records(acc, UnwrapOr(response.pairs, <<>>))

---------------------------------------------------------------------------
(* The upstream feed: records DEX Screener may return *)

Liq(usd) == Some(LiquidityData(Some(usd)))

\* accepted: liquidity exactly at the floor
R_net_MU == DexScreenerPair(S_metis, S_netswap, SymM, SymU, Some(<<"8", "5">>), None, Liq(1000))

\* accepted: no priceUsd, priceNative is used
R_tet_MU == DexScreenerPair(S_metis, S_tethys, SymM, SymU, None, Some(<<"8", "0">>), Liq(5000))

\* accepted alone; a duplicate of R_net_MU by full_id, with another price
R_net_MU2 == DexScreenerPair(S_metis, S_netswap, SymM, SymU, Some(<<"9", "0">>), Some(<<"9", "1">>), Liq(2000))

\* accepted: a fractional price
R_net_WU == DexScreenerPair(S_metis, S_netswap, SymW, SymU, Some(<<"0", ".", "5">>), None, Liq(3000))

\* another chain
R_eth == DexScreenerPair(S_ethereum, S_netswap, SymW, SymU, Some(<<"7", "0">>), None, Liq(9000))

\* the chain label with another capitalisation
R_Metis == DexScreenerPair(S_Metis, S_tethys, SymW, SymU, Some(<<"7", "2">>), None, Liq(9000))

\* another exchange
R_uni == DexScreenerPair(S_metis, S_uniswap, SymW, SymU, Some(<<"7", "1">>), None, Liq(9000))

\* no price field at all
R_noprice == DexScreenerPair(S_metis, S_tethys, SymW, SymU, None, None, Liq(9000))

\* an unparseable priceUsd hides a good priceNative
R_badprice == DexScreenerPair(S_metis, S_tethys, SymW, SymU, Some(<<"a", "b">>), Some(<<"6", "1">>), Liq(9000))

R_zero == DexScreenerPair(S_metis, S_tethys, SymW, SymU, Some(<<"0">>), None, Liq(9000))

R_neg == DexScreenerPair(S_metis, S_tethys, SymW, SymU, Some(<<"-", "1">>), None, Liq(9000))

\* one dollar under the floor
R_lowliq == DexScreenerPair(S_metis, S_tethys, SymW, SymU, Some(<<"6", "2">>), None, Liq(999))

\* no liquidity object
R_noliq == DexScreenerPair(S_metis, S_tethys, SymW, SymU, Some(<<"6", "3">>), None, None)

\* a liquidity object without usd
R_nousd == DexScreenerPair(S_metis, S_tethys, SymW, SymU, Some(<<"6", "4">>), None, Some(LiquidityData(None)))

Ok(pairs) == [kind |-> "ok", pairs |-> Some(pairs)]

\* a decoded body with no "pairs" member
OkNoPairs == [kind |-> "ok", pairs |-> None]

\* send() failed (a timeout included), a non-success status, an undecodable body
Failed(kind) == [kind |-> kind, pairs |-> None]

FailureKinds == {"transport_err", "status_err", "decode_err"}

\* the responses one search may get
Responses ==
    {Failed(k) : k \in FailureKinds} \cup
    {OkNoPairs,
     Ok(<<R_net_MU, R_tet_MU>>),
     Ok(<<R_net_MU2, R_net_MU>>),
     Ok(<<R_tet_MU, R_net_WU>>),
     Ok(<<R_eth, R_uni, R_Metis>>),
     Ok(<<R_noprice, R_badprice>>),
     Ok(<<R_zero, R_neg>>),
     Ok(<<R_lowliq, R_net_MU2, R_noliq>>),
     Ok(<<R_nousd, R_net_WU>>)}

Terms == {search_terms[i] : i \in 1..Len(search_terms)}

Feed(r1, r2, r3) ==
    [t \in Terms |-> IF t = search_terms[1] THEN r1
                     ELSE IF t = search_terms[2] THEN r2 ELSE r3]

\* every feed over Responses
AllFeeds == [Terms -> Responses]

\* two pairs, one of them found twice; the third search fails
FeedA == Feed(Ok(<<R_net_MU, R_tet_MU>>), Ok(<<R_net_MU2, R_uni>>), Failed("transport_err"))

\* every search fails
FeedB == Feed(Failed("status_err"), Failed("decode_err"), Failed("transport_err"))

\* the feeds of the concurrent specification
LiveFeeds == {FeedA, FeedB}

\* the tasks sharing one MetisPriceFeed
Tasks == {"t1", "t2"}

\* the (base, quote) arguments of get_price and get_liquidity
Queries == {<<SymM, SymU>>}

\* the amounts, in milliseconds, by which the clock advances: half a second
\* over the freshness window of get_price
Durations == {60500}

---------------------------------------------------------------------------
(* price_feed.rs: the cache and the locks *)

CachedPrice(price, timestamp, source) ==
    [price |-> price, timestamp |-> timestamp, source |-> source]

\* HashMap::new
EmptyMap == [k \in {} |-> None]

\* an insert that drops every other entry of the map
map_insert_alone(m, key, value) == [k \in {key} |-> value]

\* HashMap::insert
map_insert(m, key, value) ==
    [k \in DOMAIN m \cup {key} |-> IF k = key THEN value ELSE m[k]]

\* HashMap::get
map_get(m, key) == IF key \in DOMAIN m THEN Some(m[key]) ELSE None

\* format!("{}/{}", base, quote)
price_key(base, quote) == base \o <<"/">> \o quote

\* format!("{}/{}-liq", base, quote)
liq_key(base, quote) == base \o <<"/">> \o quote \o <<"-", "l", "i", "q">>

\* a read that does not wait for the write guard to drop
can_read_unguarded(lock) == TRUE

\* RwLock::read is granted while no task holds the write guard; the read
\* sections of this file hold no await, so each is one step
can_read(lock) == lock = None

\* RwLock::write is granted while no task holds a guard
can_write(lock) == lock = None

\* a loop whose every insert goes under the price key
insert_key_price_only(pairs, k) ==
    LET pair == pairs[(k + 1) \div 2]
    IN  price_key(pair.base_token.symbol, pair.quote_token.symbol)

\* the key and the entry of the k-th insert of refresh's loop over `pairs`:
\* two inserts per pair, the price then the liquidity
insert_key(pairs, k) ==
    LET pair == pairs[(k + 1) \div 2]
    IN  IF k % 2 = 1
        THEN price_key(pair.base_token.symbol, pair.quote_token.symbol)
        ELSE liq_key(pair.base_token.symbol, pair.quote_token.symbol)

\* an entry back-dated by one millisecond for each insert of the loop
insert_entry_backdated(pairs, k, t) ==
    LET pair == pairs[(k + 1) \div 2]
    IN  CachedPrice(IF k % 2 = 1 THEN pair.price ELSE pair.liquidity, t - k,
                    SourcePrefix \o pair.exchange.name)

\* an entry taken from the first pair of the list with the symbols of the k-th
insert_entry_first_listed(pairs, k, t) ==
    LET this == pairs[(k + 1) \div 2]
        pair == pairs[CHOOSE i \in 1..Len(pairs) :
                         /\ pair_id(pairs[i]) = pair_id(this)
                         /\ \A j \in 1..(i - 1) : pair_id(pairs[j]) # pair_id(this)]
    IN  CachedPrice(IF k % 2 = 1 THEN pair.price ELSE pair.liquidity, t,
                    SourcePrefix \o pair.exchange.name)

\* the entry of the k-th insert of refresh's loop, stamped chrono::Utc::now()
insert_entry(pairs, k, t) ==
    LET pair == pairs[(k + 1) \div 2]
    IN  CachedPrice(IF k % 2 = 1 THEN pair.price ELSE pair.liquidity, t,
                    SourcePrefix \o pair.exchange.name)

\* what a call leaves with its caller
Returned(op, base, quote, val) ==
    [op |-> op, base |-> base, quote |-> quote, val |-> val]

NoCall == Returned("none", <<>>, <<>>, <<>>)

\* the value get_price computes from the cache at clock reading t
get_price(c, base, quote, t) ==
    LET cached == map_get(c, price_key(base, quote))
    IN  IF IsSome(cached) /\ ~is_stale(Unwrap(cached), PRICE_MAX_AGE, t)
        THEN Some(Unwrap(cached).price)
        ELSE None

\* get_liquidity with the freshness test of get_price
get_liquidity_fresh(c, base, quote) ==
    LET cached == map_get(c, liq_key(base, quote))
    IN  IF IsSome(cached) /\ ~is_stale(Unwrap(cached), PRICE_MAX_AGE, now)
        THEN Some(Unwrap(cached).price)
        ELSE None

\* the value get_liquidity computes from the cache
get_liquidity(c, base, quote) ==
    LET cached == map_get(c, liq_key(base, quote))
    IN  IF IsSome(cached) THEN Some(Unwrap(cached).price) ELSE None

---------------------------------------------------------------------------
(* The state machine *)

TypeOK ==
    /\ now \in Nat /\ ticks \in 0..MaxTicks
    /\ cache_lock \in {None} \cup {Some(p) : p \in Tasks}
    /\ pairs_lock \in {None} \cup {Some(p) : p \in Tasks}
    /\ pc \in [Tasks -> {"idle", "r_fetch", "r_lock_pairs", "r_write", "r_insert",
                         "r_unlock", "g_fetch", "g_call", "gp_call", "gl_call",
                         "m_tick", "m_refresh", "m_pairs", "m_scan"}]
    /\ term_i \in [Tasks -> 1..(Len(search_terms) + 1)]
    /\ pairs_by \in {"none", "refresh", "warmup"}

\* MetisPriceFeed::new
InitLocal ==
    /\ now = 0
    /\ ticks = 0
    /\ cache = EmptyMap
    /\ pairs_cache = <<>>
    /\ cache_lock = None
    /\ pairs_lock = None
    /\ pc = [p \in Tasks |-> "idle"]
    /\ term_i = [p \in Tasks |-> 1]
    /\ all_pairs = [p \in Tasks |-> <<>>]
    /\ ins_i = [p \in Tasks |-> 1]
    /\ ret = NoCall
    /\ pairs_by = "none"
    /\ fetch_feed = [p \in Tasks |-> None]
    /\ pairs_feed = None

Init == feed \in LiveFeeds /\ InitLocal

InitFetch == feed \in AllFeeds /\ InitLocal

\* the clock advances
Tick ==
    /\ ticks < MaxTicks
    /\ \E d \in Durations : now' = now + d
    /\ ticks' = ticks + 1
    /\ ret' = NoCall
    /\ UNCHANGED <<feed, cache, pairs_cache, cache_lock, pairs_lock, pc, term_i,
                   all_pairs, ins_i, pairs_by, fetch_feed, pairs_feed>>

\* the upstream data changes
ChangeFeed ==
    /\ feed' \in LiveFeeds \ {feed}
    /\ ret' = NoCall
    /\ UNCHANGED <<now, ticks, cache, pairs_cache, cache_lock, pairs_lock, pc,
                   term_i, all_pairs, ins_i, pairs_by, fetch_feed, pairs_feed>>

\* fetch_metis_pairs is entered: all_pairs = Vec::new()
begin_fetch(p, at) ==
    /\ pc' = [pc EXCEPT ![p] = at]
    /\ term_i' = [term_i EXCEPT ![p] = 1]
    /\ all_pairs' = [all_pairs EXCEPT ![p] = <<>>]
    /\ fetch_feed' = [fetch_feed EXCEPT ![p] = Some(feed)]

\* fetch_metis_pairs: the request of one search term and its records
FetchTerm(p) ==
    /\ pc[p] \in {"r_fetch", "g_fetch"}
    /\ term_i[p] <= Len(search_terms)
    /\ all_pairs' = [all_pairs EXCEPT
                        ![p] = fetch_term(all_pairs[p], feed[search_terms[term_i[p]]])]
    /\ term_i' = [term_i EXCEPT ![p] = term_i[p] + 1]
    /\ fetch_feed' = [fetch_feed EXCEPT
                        ![p] = IF fetch_feed[p] = Some(feed) THEN Some(feed) ELSE None]
    /\ ret' = NoCall
    /\ UNCHANGED <<feed, now, ticks, cache, pairs_cache, cache_lock, pairs_lock, pc,
                   ins_i, pairs_by, pairs_feed>>

RECURSIVE fetch_terms(_, _, _)
\* the iterations of `for term in search_terms` from the i-th on
fetch_terms(acc, f, i) ==
    IF i > Len(search_terms) THEN acc
    ELSE fetch_terms(fetch_term(acc, f[search_terms[i]]), f, i + 1)

\* fetch_metis_pairs against upstream data that stays as it is for the three
\* requests: the value of all_pairs it returns
fetch_metis_pairs(f) == fetch_terms(<<>>, f, 1)

\* fetch_metis_pairs, its three requests in one step
FetchAll(p) ==
    /\ pc[p] \in {"r_fetch", "g_fetch"}
    /\ term_i[p] = 1
    /\ all_pairs' = [all_pairs EXCEPT ![p] = fetch_metis_pairs(feed)]
    /\ term_i' = [term_i EXCEPT ![p] = Len(search_terms) + 1]
    /\ fetch_feed' = [fetch_feed EXCEPT ![p] = Some(feed)]
    /\ ret' = NoCall
    /\ UNCHANGED <<feed, now, ticks, cache, pairs_cache, cache_lock, pairs_lock, pc,
                   ins_i, pairs_by, pairs_feed>>

\* fetch_metis_pairs has returned Ok(all_pairs): it has no other return
fetch_done(p) == term_i[p] > Len(search_terms)

\* refresh is called
RefreshCall(p) ==
    /\ pc[p] = "idle"
    /\ begin_fetch(p, "r_fetch")
    /\ ret' = NoCall
    /\ UNCHANGED <<feed, now, ticks, cache, pairs_cache, cache_lock, pairs_lock,
                   ins_i, pairs_by, pairs_feed>>

\* refresh: let mut price_cache = self.cache.write().await
RefreshLockCache(p) ==
    /\ pc[p] = "r_fetch"
    /\ fetch_done(p)
    /\ can_write(cache_lock)
    /\ cache_lock' = Some(p)
    /\ pc' = [pc EXCEPT ![p] = "r_lock_pairs"]
    /\ ret' = NoCall
    /\ UNCHANGED <<feed, now, ticks, cache, pairs_cache, pairs_lock, term_i,
                   all_pairs, ins_i, pairs_by, fetch_feed, pairs_feed>>

\* refresh: let mut pairs_cache = self.pairs_cache.write().await
RefreshLockPairs(p) ==
    /\ pc[p] = "r_lock_pairs"
    /\ can_write(pairs_lock)
    /\ pairs_lock' = Some(p)
    /\ pc' = [pc EXCEPT ![p] = "r_write"]
    /\ ret' = NoCall
    /\ UNCHANGED <<feed, now, ticks, cache, pairs_cache, cache_lock, term_i,
                   all_pairs, ins_i, pairs_by, fetch_feed, pairs_feed>>

\* a refresh that extends the stored list instead of replacing it
refresh_pairs_extend(old, pairs) == old \o pairs

\* the pair list refresh stores
refresh_pairs(old, pairs) == pairs

\* refresh: *pairs_cache = pairs.clone()
RefreshWritePairs(p) ==
    /\ pc[p] = "r_write"
    /\ pairs_cache' = refresh_pairs(pairs_cache, all_pairs[p])
    /\ ins_i' = [ins_i EXCEPT ![p] = 1]
    /\ pc' = [pc EXCEPT ![p] = "r_insert"]
    /\ pairs_by' = "refresh"
    /\ pairs_feed' = fetch_feed[p]
    /\ ret' = NoCall
    /\ UNCHANGED <<feed, now, ticks, cache, cache_lock, pairs_lock, term_i,
                   all_pairs, fetch_feed>>

\* refresh: one price_cache.insert of the loop over `pairs`
RefreshInsert(p) ==
    /\ pc[p] = "r_insert"
    /\ ins_i[p] <= 2 * Len(all_pairs[p])
    /\ cache' = map_insert(cache, insert_key(all_pairs[p], ins_i[p]),
                           insert_entry(all_pairs[p], ins_i[p], now))
    /\ ins_i' = [ins_i EXCEPT ![p] = ins_i[p] + 1]
    /\ ret' = NoCall
    /\ UNCHANGED <<feed, now, ticks, pairs_cache, cache_lock, pairs_lock, pc,
                   term_i, all_pairs, pairs_by, fetch_feed, pairs_feed>>

\* refresh returns: the guards drop in reverse order of declaration,
\* pairs_cache first
RefreshUnlockPairs(p) ==
    /\ pc[p] = "r_insert"
    /\ ins_i[p] > 2 * Len(all_pairs[p])
    /\ pairs_lock' = None
    /\ pc' = [pc EXCEPT ![p] = "r_unlock"]
    /\ ret' = NoCall
    /\ UNCHANGED <<feed, now, ticks, cache, pairs_cache, cache_lock, term_i,
                   all_pairs, ins_i, pairs_by, fetch_feed, pairs_feed>>

\* a refresh that returns with the price_cache guard still held
RefreshReturnHolding(p) ==
    /\ pc[p] = "r_unlock"
    /\ pc' = [pc EXCEPT ![p] = "idle"]
    /\ ret' = Returned("refresh", <<>>, <<>>, <<"Ok">>)
    /\ UNCHANGED <<feed, now, ticks, cache, pairs_cache, cache_lock, pairs_lock,
                   term_i, all_pairs, ins_i, pairs_by, fetch_feed, pairs_feed>>

\* refresh returns Ok(()): the price_cache guard drops
RefreshReturn(p) ==
    /\ pc[p] = "r_unlock"
    /\ cache_lock' = None
    /\ pc' = [pc EXCEPT ![p] = "idle"]
    /\ ret' = Returned("refresh", <<>>, <<>>, <<"Ok">>)
    /\ UNCHANGED <<feed, now, ticks, cache, pairs_cache, pairs_lock, term_i,
                   all_pairs, ins_i, pairs_by, fetch_feed, pairs_feed>>

\* an emptiness test that takes every list for a stored snapshot
cache_is_empty_never(stored) == FALSE

\* get_trading_pairs: cache.is_empty()
cache_is_empty(stored) == stored = <<>>

\* get_trading_pairs: the cache is not empty, its clone is returned
GetTradingPairsCached(p) ==
    /\ pc[p] = "idle"
    /\ can_read(pairs_lock)
    /\ ~cache_is_empty(pairs_cache)
    /\ ret' = Returned("get_trading_pairs", <<>>, <<>>, pairs_cache)
    /\ UNCHANGED <<feed, now, ticks, cache, pairs_cache, cache_lock, pairs_lock, pc,
                   term_i, all_pairs, ins_i, pairs_by, fetch_feed, pairs_feed>>

\* get_trading_pairs: the cache is empty, the read guard drops and
\* fetch_metis_pairs is entered
GetTradingPairsMiss(p) ==
    /\ pc[p] = "idle"
    /\ can_read(pairs_lock)
    /\ cache_is_empty(pairs_cache)
    /\ begin_fetch(p, "g_fetch")
    /\ ret' = NoCall
    /\ UNCHANGED <<feed, now, ticks, cache, pairs_cache, cache_lock, pairs_lock,
                   ins_i, pairs_by, pairs_feed>>

\* get_trading_pairs: the fetched list is stored under the write guard and
\* returned
GetTradingPairsStore(p) ==
    /\ pc[p] = "g_fetch"
    /\ fetch_done(p)
    /\ can_write(pairs_lock)
    /\ pairs_cache' = all_pairs[p]
    /\ pairs_by' = "warmup"
    /\ pairs_feed' = fetch_feed[p]
    /\ pc' = [pc EXCEPT ![p] = "idle"]
    /\ ret' = Returned("get_trading_pairs", <<>>, <<>>, all_pairs[p])
    /\ UNCHANGED <<feed, now, ticks, cache, cache_lock, pairs_lock, term_i,
                   all_pairs, ins_i, fetch_feed>>

\* a get_price that removes the entry it finds stale
GetPriceEvicting(p) ==
    /\ pc[p] = "idle"
    /\ can_write(cache_lock)
    /\ \E a \in Queries :
          /\ ret' = Returned("get_price", a[1], a[2],
                             get_price(cache, a[1], a[2], now))
          /\ cache' = [k \in {key \in DOMAIN cache :
                                  \/ key # price_key(a[1], a[2])
                                  \/ ~is_stale(cache[key], PRICE_MAX_AGE, now)} |->
                          cache[k]]
    /\ UNCHANGED <<feed, now, ticks, pairs_cache, cache_lock, pairs_lock, pc,
                   term_i, all_pairs, ins_i, pairs_by, fetch_feed, pairs_feed>>

\* get_price(base, quote)
GetPrice(p) ==
    /\ pc[p] = "idle"
    /\ can_read(cache_lock)
    /\ \E a \in Queries :
          ret' = Returned("get_price", a[1], a[2],
                          get_price(cache, a[1], a[2], now))
    /\ UNCHANGED <<feed, now, ticks, cache, pairs_cache, cache_lock, pairs_lock, pc,
                   term_i, all_pairs, ins_i, pairs_by, fetch_feed, pairs_feed>>

\* get_liquidity(base, quote)
GetLiquidity(p) ==
    /\ pc[p] = "idle"
    /\ can_read(cache_lock)
    /\ \E a \in Queries :
          ret' = Returned("get_liquidity", a[1], a[2],
                          get_liquidity(cache, a[1], a[2]))
    /\ UNCHANGED <<feed, now, ticks, cache, pairs_cache, cache_lock, pairs_lock, pc,
                   term_i, all_pairs, ins_i, pairs_by, fetch_feed, pairs_feed>>

\* a step of refresh
Refresh(p) ==
    \/ RefreshCall(p)
    \/ RefreshLockCache(p)
    \/ RefreshLockPairs(p)
    \/ RefreshWritePairs(p)
    \/ RefreshInsert(p)
    \/ RefreshUnlockPairs(p)
    \/ RefreshReturn(p)

\* a step of get_trading_pairs
GetTradingPairs(p) ==
    \/ GetTradingPairsCached(p)
    \/ GetTradingPairsMiss(p)
    \/ GetTradingPairsStore(p)

Next ==
    \/ Tick
    \/ ChangeFeed
    \/ \E p \in Tasks :
          \/ FetchAll(p)
          \/ Refresh(p)
          \/ GetTradingPairs(p)
          \/ GetPrice(p)
          \/ GetLiquidity(p)

\* tasks calling the feed concurrently while the clock and the upstream move
Spec == Init /\ [][Next]_vars

\* one task calling refresh and get_trading_pairs over a fixed upstream feed
NextFetch == FetchTerm("t1") \/ Refresh("t1") \/ GetTradingPairs("t1")

SpecFetch == InitFetch /\ [][NextFetch]_vars


---------------------------------------------------------------------------
(* Claims.  ret holds the value returned in the last step, so a state in   *)
(* which ret names a read is the state that read was made in.              *)

\* one key of the price cache: its age in milliseconds
AgeMs(k) == now - cache[k].timestamp

\* the newest timestamp of the price cache
LatestStamp == CHOOSE t \in {cache[k].timestamp : k \in DOMAIN cache} :
                   \A k \in DOMAIN cache : cache[k].timestamp <= t

---------------------------------------------------------------------------

\* a refresh has replaced the pair list and has inserts of its loop left
HalfWritten(p) == pc[p] = "r_insert" /\ ins_i[p] <= 2 * Len(all_pairs[p])

Reads == {"get_price", "get_liquidity", "get_trading_pairs"}

\* C3: no read returns while a refresh is between its replace of the pair
\* list and the last insert of its loop: every read is made in a state before
\* the replace or after all the writes of each refresh.  (A returned pair list
\* is a value of its own, the clone: ret is not a reference into pairs_cache.)
C3_NoHalfUpdatedRead ==
    ret.op \in Reads => \A p \in Tasks : ~HalfWritten(p)

\* get_trading_pairs has returned the list of a refresh that has made all its
\* writes and still holds the write guard of the price cache
C3_ReadDuringRefresh ==
    /\ ret.op = "get_trading_pairs"
    /\ ret.val # <<>>
    /\ \E p \in Tasks : /\ pc[p] = "r_unlock"
                        /\ cache_lock = Some(p)
                        /\ ret.val = all_pairs[p]

\* C4 as stated: get_trading_pairs enters its fetch only while no snapshot has
\* been stored yet, by a refresh or by a warm-up, whatever the snapshot holds.
C4_FetchOnlyBeforeFirstStore ==
    [][\A p \in Tasks : GetTradingPairsMiss(p) => pairs_by = "none"]_vars

\* C4 amended: get_trading_pairs enters its fetch exactly when the pair-list
\* cache is empty as the call reads it, be it that nothing was stored yet or
\* that the stored snapshot is empty; when the cache is not empty the call
\* returns the stored list and enters no fetch.
C4_FetchOnlyWhenEmpty ==
    [][/\ \A p \in Tasks :
              (pc[p] = "idle" /\ pc'[p] = "g_fetch") => pairs_cache = <<>>
       /\ (pc' = pc /\ ret'.op = "get_trading_pairs") =>
              (pairs_cache # <<>> /\ ret'.val = pairs_cache /\ pairs_cache' = pairs_cache)]_vars

\* a call has entered its fetch over a snapshot that was stored and is empty
C4_FetchAfterEmptyStore ==
    \E p \in Tasks : /\ pc[p] = "g_fetch"
                      /\ term_i[p] = 1
                      /\ pairs_by # "none"
                      /\ pairs_cache = <<>>

\* the price and the liquidity key of a pair
KeysOf(pair) ==
    {price_key(pair.base_token.symbol, pair.quote_token.symbol),
     liq_key(pair.base_token.symbol, pair.quote_token.symbol)}

\* C5 as stated: whenever no refresh is inside its writes, each pair of the
\* pair-list cache has its "{base}/{quote}" and "{base}/{quote}-liq" entries
\* in the price cache.
C5_PairsHaveEntries ==
    cache_lock = None =>
        \A i \in 1..Len(pairs_cache) : KeysOf(pairs_cache[i]) \subseteq DOMAIN cache

\* C5 amended: a refresh that replaces the pair list writes the price and the
\* liquidity entry of every pair of it before it drops its write guards, while
\* the warm-up of get_trading_pairs replaces the pair list alone; so whenever
\* no refresh holds the write guard and the pair list was last stored by a
\* refresh, each pair of it has both its entries in the price cache.
C5_RefreshedPairsHaveEntries ==
    (cache_lock = None /\ pairs_by = "refresh") =>
        \A i \in 1..Len(pairs_cache) : KeysOf(pairs_cache[i]) \subseteq DOMAIN cache

\* a refresh has stored a list with pairs in it and has returned
C5_RefreshStored ==
    /\ cache_lock = None
    /\ pairs_by = "refresh"
    /\ pairs_cache # <<>>
    /\ ret.op = "refresh"

\* C6: get_liquidity returns Some(value of the entry under
\* "{base}/{quote}-liq") whenever that entry is in the cache, whatever its
\* age, and None only when it is not; and no step removes an entry, so an
\* entry once written is returned in every later state.
C6_LiquidityNeverExpires ==
    [][/\ DOMAIN cache \subseteq DOMAIN cache'
       /\ ret'.op = "get_liquidity" =>
             LET k == liq_key(ret'.base, ret'.quote)
             IN  ret'.val = IF k \in DOMAIN cache' THEN Some(cache'[k].price)
                            ELSE None]_vars

\* get_liquidity has returned the liquidity of an entry two minutes old
C6_StaleLiquidityRead ==
    /\ ret.op = "get_liquidity"
    /\ IsSome(ret.val)
    /\ LET k == liq_key(ret.base, ret.quote)
       IN  k \in DOMAIN cache /\ AgeMs(k) > 2 * PRICE_MAX_AGE * 1000

---------------------------------------------------------------------------
(* The claims about one fetch, over every feed of AllFeeds *)

\* the records of a response, none for a failed search
RecordsOf(response) ==
    IF response.kind = "ok" THEN UnwrapOr(response.pairs, <<>>) ELSE <<>>

\* the records of a feed in discovery order: term by term, each in its order
FeedRecords(f) ==
    RecordsOf(f[search_terms[1]]) \o RecordsOf(f[search_terms[2]])
        \o RecordsOf(f[search_terms[3]])

RECURSIVE Converted(_)
\* the pairs of the records that pass the filter and convert, in their order,
\* duplicates included
Converted(recs) ==
    IF recs = <<>> THEN <<>>
    ELSE LET r == Head(recs)
         IN  (IF passes_filter(r) /\ IsSome(convert_to_trading_pair(r))
              THEN <<Unwrap(convert_to_trading_pair(r))>> ELSE <<>>)
                 \o Converted(Tail(recs))

\* no two pairs of a list share a full_id
DistinctIds(pairs) ==
    \A i, j \in 1..Len(pairs) : i # j => full_id(pairs[i]) # full_id(pairs[j])

\* each pair of `pairs` is the first pair of `found` with its full_id, and
\* every full_id of `found` is in `pairs`
FirstSeen(pairs, found) ==
    /\ \A i \in 1..Len(pairs) :
          LET same == {j \in 1..Len(found) : full_id(found[j]) = full_id(pairs[i])}
          IN  /\ same # {}
              /\ pairs[i] = found[CHOOSE j \in same : \A k \in same : j <= k]
    /\ \A j \in 1..Len(found) :
          \E i \in 1..Len(pairs) : full_id(pairs[i]) = full_id(found[j])

\* the lists a fetch has produced: the stored one and those of ended fetches
Fetched ==
    (IF pairs_by # "none" THEN {pairs_cache} ELSE {})
        \cup {all_pairs[p] : p \in {q \in Tasks : fetch_done(q)}}

\* C7: the records of one fetch that convert to the same full_id leave one
\* pair, the first seen in discovery order over all the search terms; so no
\* two pairs of the pair-list cache share a full_id.
C7_FirstSeenWins ==
    /\ DistinctIds(pairs_cache)
    /\ \A pairs \in Fetched :
          DistinctIds(pairs) /\ FirstSeen(pairs, Converted(FeedRecords(feed)))

\* a stored list in which a pair has displaced a later record of the same
\* full_id and another price
C7_DuplicateDropped ==
    /\ pairs_by # "none"
    /\ LET found == Converted(FeedRecords(feed))
       IN  \E i \in 1..Len(pairs_cache), j \in 1..Len(found) :
              /\ full_id(found[j]) = full_id(pairs_cache[i])
              /\ found[j].price # pairs_cache[i].price

\* the records of the feed
RecordSet(f) == {FeedRecords(f)[k] : k \in 1..Len(FeedRecords(f))}

\* the USD liquidity a record reports, a missing one counted as 0
ReportedUsd(r) ==
    IF IsSome(r.liquidity) /\ IsSome(Unwrap(r.liquidity).usd)
    THEN Unwrap(Unwrap(r.liquidity).usd) ELSE 0

\* the price string of a record: priceUsd, else priceNative, else none
PriceField(r) == IF IsSome(r.price_usd) THEN r.price_usd ELSE r.price_native

\* the record has a price string that parses to a price over 0
PricePositive(r) ==
    /\ IsSome(PriceField(r))
    /\ IsSome(DecimalFromStr(Unwrap(PriceField(r))))
    /\ Unwrap(DecimalFromStr(Unwrap(PriceField(r)))) > 0

\* the record has no price, an unparseable one, one not over 0, or a
\* liquidity under 1000
Rejectable(r) == ~PricePositive(r) \/ ReportedUsd(r) < 1000

\* the pair is listed under the tokens and the exchange of the record
ListedAs(pair, r) ==
    /\ pair.base_token.symbol = r.base_token.symbol
    /\ pair.quote_token.symbol = r.quote_token.symbol
    /\ pair.exchange.name = r.dex_id

\* the pair carries the price and the liquidity of the record
ValuesOf(pair, r) ==
    /\ PricePositive(r)
    /\ pair.price = Unwrap(DecimalFromStr(Unwrap(PriceField(r))))
    /\ pair.liquidity = ReportedUsd(r) * Scale

\* C8: a record with no price, with a price that does not parse or is not
\* over 0, or with a USD liquidity under 1000 (a missing one counting as 0) is
\* never stored, and a record with liquidity 1000 and a price over 0 is
\* accepted; so every pair of the pair-list cache has a price over 0 and a
\* liquidity of at least 1000.
C8_RejectionRules ==
    /\ \A i \in 1..Len(pairs_cache) :
          pairs_cache[i].price > 0 /\ pairs_cache[i].liquidity >= 1000 * Scale
    /\ \A r \in RecordSet(feed) :
          /\ Rejectable(r) =>
                /\ convert_to_trading_pair(r) = None
                /\ \A pairs \in Fetched : \A i \in 1..Len(pairs) :
                      ~(ListedAs(pairs[i], r) /\ ValuesOf(pairs[i], r))
          /\ (PricePositive(r) /\ ReportedUsd(r) = 1000) =>
                /\ IsSome(convert_to_trading_pair(r))
                /\ ValuesOf(Unwrap(convert_to_trading_pair(r)), r)
                /\ passes_filter(r) =>
                      \A pairs \in Fetched : \E i \in 1..Len(pairs) : ListedAs(pairs[i], r)

\* a pair with a liquidity of exactly 1000 is stored, from a feed that also
\* holds a record with 999 and one with no price
C8_FloorStored ==
    /\ pairs_by # "none"
    /\ \E i \in 1..Len(pairs_cache) : pairs_cache[i].liquidity = 1000 * Scale
    /\ \E r \in RecordSet(feed) : PricePositive(r) /\ ReportedUsd(r) = 999
    /\ \E r \in RecordSet(feed) : ~IsSome(PriceField(r))

\* the record is of the chain "metis" and of the exchange "netswap" or "tethys"
Allowed(r) == r.chain_id = S_metis /\ r.dex_id \in {S_netswap, S_tethys}

\* the pair is the conversion of an allowed record of the feed
FromAllowed(pair, f) ==
    \E r \in RecordSet(f) : Allowed(r) /\ convert_to_trading_pair(r) = Some(pair)

\* the price-cache entry under `key` was written for an allowed record of the feed
EntryFromAllowed(key, entry, f) ==
    \E r \in RecordSet(f) :
        /\ Allowed(r)
        /\ IsSome(convert_to_trading_pair(r))
        /\ entry.source = SourcePrefix \o r.dex_id
        /\ LET pair == Unwrap(convert_to_trading_pair(r))
           IN  \/ /\ key = price_key(r.base_token.symbol, r.quote_token.symbol)
                  /\ entry.price = pair.price
               \/ /\ key = liq_key(r.base_token.symbol, r.quote_token.symbol)
                  /\ entry.price = pair.liquidity

\* C9: every pair of a fetched snapshot comes from a record whose chain is
\* exactly "metis" and whose exchange is "netswap" or "tethys"; a record of
\* another chain or exchange reaches neither the pair-list cache nor the
\* price cache.
C9_OnlyMetisNetswapTethys ==
    /\ \A pairs \in Fetched \cup {pairs_cache} :
          \A i \in 1..Len(pairs) : FromAllowed(pairs[i], feed)
    /\ \A key \in DOMAIN cache : EntryFromAllowed(key, cache[key], feed)

\* a refresh has stored pairs and entries from a feed that also holds records
\* of another chain, of the chain under another capitalisation, and of
\* another exchange
C9_ForeignRecordsDropped ==
    /\ pairs_cache # <<>>
    /\ DOMAIN cache # {}
    /\ \E r \in RecordSet(feed) : r.chain_id = S_ethereum /\ PricePositive(r)
    /\ \E r \in RecordSet(feed) : r.chain_id = S_Metis /\ PricePositive(r)
    /\ \E r \in RecordSet(feed) : r.dex_id = S_uniswap /\ PricePositive(r)

---------------------------------------------------------------------------
(* refresh called again *)

\* C10: a refresh whose fetch saw the same responses as the fetch of the
\* refresh that stored the current pair list leaves the pair list as it was:
\* the same pairs in the same order, whatever the caches held before.
C10_RefreshIdempotent ==
    [][\A p \in Tasks :
          (/\ pc[p] = "r_write" /\ pc'[p] = "r_insert"
           /\ pairs_by = "refresh"
           /\ IsSome(fetch_feed[p])
           /\ fetch_feed[p] = pairs_feed)
              => pairs_cache' = pairs_cache]_vars

\* a refresh is about to write a list with pairs over the list an earlier
\* refresh stored from the same responses
C10_SecondRefreshWrites ==
    \E p \in Tasks :
        /\ pc[p] = "r_write"
        /\ pairs_by = "refresh"
        /\ IsSome(fetch_feed[p])
        /\ fetch_feed[p] = pairs_feed
        /\ pairs_cache # <<>>

---------------------------------------------------------------------------
(* models.rs on its own: CachedPrice::is_stale, TradingPair::pair_id and   *)
(* TradingPair::full_id applied to values built by their constructors      *)

\* a function applied to `arg` has returned `val`
Applied(op, arg, val) == Returned(op, arg, <<>>, val)

\* the ages, in milliseconds, of the CachedPrice under test
StampAges == {0, 500, 59999, 60000, 60999, 61000, 120000, 179999, 180000, 180999,
              181000, 240000}

\* the clock readings at which is_stale is called
Nows == {240000, 300500}

\* the max_age_seconds arguments of is_stale
MaxAges == {0, 60, 120, 180}

\* the key the CachedPrice under test is kept under
StaleKey == price_key(SymW, SymU)

\* symbols and exchange names TradingPair::new is called with
PairSymbols == {SymM, SymU, SymW}

ExchangeNames == {S_netswap, S_tethys, S_uniswap}

\* a CachedPrice with a timestamp in the past and a TradingPair
InitModels ==
    /\ feed = FeedB
    /\ now \in Nows
    /\ ticks = 0
    /\ \E age \in StampAges :
          cache = map_insert(EmptyMap, StaleKey,
                             CachedPrice(DecimalFrom(1800), now - age, <<"test">>))
    /\ \E b \in PairSymbols, q \in PairSymbols, e \in ExchangeNames :
          pairs_cache = <<TradingPair(Token(b), Token(q), Exchange(e, S_Metis),
                                       DecimalFrom(1800), DecimalFrom(500000))>>
    /\ cache_lock = None
    /\ pairs_lock = None
    /\ pc = [p \in Tasks |-> "idle"]
    /\ term_i = [p \in Tasks |-> 1]
    /\ all_pairs = [p \in Tasks |-> <<>>]
    /\ ins_i = [p \in Tasks |-> 1]
    /\ ret = NoCall
    /\ pairs_by = "none"
    /\ fetch_feed = [p \in Tasks |-> None]
    /\ pairs_feed = None

\* cached.is_stale(max_age_seconds)
IsStale ==
    /\ \E max_age_seconds \in MaxAges :
          ret' = Applied("is_stale", max_age_seconds,
                         is_stale(cache[StaleKey], max_age_seconds, now))
    /\ UNCHANGED <<feed, now, ticks, cache, pairs_cache, cache_lock, pairs_lock, pc,
                   term_i, all_pairs, ins_i, pairs_by, fetch_feed, pairs_feed>>

\* pair.pair_id()
PairId ==
    /\ ret' = Applied("pair_id", pairs_cache[1], pair_id(pairs_cache[1]))
    /\ UNCHANGED <<feed, now, ticks, cache, pairs_cache, cache_lock, pairs_lock, pc,
                   term_i, all_pairs, ins_i, pairs_by, fetch_feed, pairs_feed>>

\* pair.full_id()
FullId ==
    /\ ret' = Applied("full_id", pairs_cache[1], full_id(pairs_cache[1]))
    /\ UNCHANGED <<feed, now, ticks, cache, pairs_cache, cache_lock, pairs_lock, pc,
                   term_i, all_pairs, ins_i, pairs_by, fetch_feed, pairs_feed>>

NextModels == IsStale \/ PairId \/ FullId

SpecModels == InitModels /\ [][NextModels]_vars

\* the whole seconds in a span of ms milliseconds, ms >= 0
WholeSeconds(ms) == CHOOSE n \in 0..ms : n * 1000 <= ms /\ ms < (n + 1) * 1000

\* C11: is_stale(max_age) is true exactly when the age of the entry in whole
\* seconds is strictly over max_age: an entry aged 120 s is stale for 60 and
\* not for 180, and an entry whose age equals max_age is not stale.
C11_StaleIffOlderInWholeSeconds ==
    ret.op = "is_stale" =>
        LET age == now - cache[StaleKey].timestamp
        IN  /\ ret.val = (WholeSeconds(age) > ret.base)
            /\ (age = 120000 /\ ret.base = 60) => ret.val = TRUE
            /\ (age = 120000 /\ ret.base = 180) => ret.val = FALSE
            /\ WholeSeconds(age) = ret.base => ret.val = FALSE

\* is_stale(60) has answered false for an entry 60 whole seconds old, and
\* some milliseconds more
C11_AtMaxAgeNotStale ==
    /\ ret.op = "is_stale"
    /\ ret.base = 60
    /\ now - cache[StaleKey].timestamp = 60999
    /\ ret.val = FALSE

---------------------------------------------------------------------------
(* main.rs: find_price_differences *)

\* the group key of a pair: format!("{}/{}", base symbol, quote symbol)
group_key(pair) == pair.base_token.symbol \o <<"/">> \o pair.quote_token.symbol

\* pair_groups: key -> the pairs pushed under it, in the order of the snapshot
pair_groups(pairs) ==
    [key \in {group_key(pairs[i]) : i \in 1..Len(pairs)} |->
        SelectSeq(pairs, LAMBDA pair : group_key(pair) = key)]

\* Iterator::min_by on the prices: the first of the least elements
min_by(exchanges) ==
    exchanges[CHOOSE i \in 1..Len(exchanges) :
                 /\ \A j \in 1..Len(exchanges) : exchanges[i].price <= exchanges[j].price
                 /\ \A j \in 1..(i - 1) : exchanges[j].price > exchanges[i].price]

\* Iterator::max_by on the prices: the last of the greatest elements
max_by(exchanges) ==
    exchanges[CHOOSE i \in 1..Len(exchanges) :
                 /\ \A j \in 1..Len(exchanges) : exchanges[j].price <= exchanges[i].price
                 /\ \A j \in (i + 1)..Len(exchanges) : exchanges[j].price < exchanges[i].price]

\* ((max_price - min_price) / min_price) * Decimal::from(100), in units of
\* 10^-DivDigits: the quotient keeps DivDigits fractional digits (28
\* significant digits in rust_decimal)
spread_of(min_price, max_price) ==
    (((max_price - min_price) * Pow10(DivDigits)) \div min_price) * 100

\* Decimal::from_str("0.5").unwrap(), in units of 10^-DivDigits
spread_floor == Unwrap(DecimalFromStr(<<"0", ".", "5">>)) * Pow10(DivDigits - DecDigits)

\* the test with >= for >: a spread equal to the floor is reported
is_significant_at_floor(spread) == spread >= spread_floor

\* spread > Decimal::from_str("0.5").unwrap()
is_significant(spread) == spread > spread_floor

\* what the two info! lines of an opportunity report
Signal(key, low, high, spread) ==
    [pair_id |-> key, min_exchange |-> low.exchange.name, min_price |-> low.price,
     max_exchange |-> high.exchange.name, max_price |-> high.price, spread |-> spread]

\* the group is reported: two listings or more, a least price over zero and a
\* significant spread
reports(exchanges) ==
    /\ ~(Len(exchanges) < 2)
    /\ min_by(exchanges).price > DecimalZERO
    /\ is_significant(spread_of(min_by(exchanges).price, max_by(exchanges).price))

\* a scanner that reports every group
find_price_differences_every_group(pairs) ==
    {Signal(key, min_by(pair_groups(pairs)[key]), max_by(pair_groups(pairs)[key]), 0) :
        key \in DOMAIN pair_groups(pairs)}

\* find_price_differences: the opportunities it reports, in no order (the
\* groups are visited in the order of a HashMap)
find_price_differences(pairs) ==
    {Signal(key, min_by(pair_groups(pairs)[key]), max_by(pair_groups(pairs)[key]),
            spread_of(min_by(pair_groups(pairs)[key]).price,
                      max_by(pair_groups(pairs)[key]).price)) :
        key \in {k \in DOMAIN pair_groups(pairs) : reports(pair_groups(pairs)[k])}}

\* a listing of base/USDC on an exchange at a price
Listing(base, dex, price) ==
    TradingPair(Token(base), Token(SymU), Exchange(dex, S_Metis),
                Unwrap(DecimalFromStr(price)), DecimalFrom(5000))

\* the listings snapshots are made of: METIS at 85, 80, 0, 80.4 (0.5 % over
\* 80) and 80.41; WETH at 1850 and 1852
Listings ==
    {Listing(SymM, S_netswap, <<"8", "5">>),
     Listing(SymM, S_tethys, <<"8", "0">>),
     Listing(SymM, S_uniswap, <<"0">>),
     Listing(SymM, S_uniswap, <<"8", "0", ".", "4">>),
     Listing(SymM, S_tethys, <<"8", "0", ".", "4", "1">>),
     Listing(SymW, S_netswap, <<"1", "8", "5", "0">>),
     Listing(SymW, S_tethys, <<"1", "8", "5", "2">>)}

\* the snapshots: every list of up to MaxSnapshot listings
Snapshots == UNION {[1..n -> Listings] : n \in 0..MaxSnapshot}

\* the driver holds a snapshot in `pairs`
InitScan ==
    /\ feed = FeedB
    /\ now = 0
    /\ ticks = 0
    /\ cache = EmptyMap
    /\ pairs_cache = <<>>
    /\ cache_lock = None
    /\ pairs_lock = None
    /\ pc = [p \in Tasks |-> "idle"]
    /\ term_i = [p \in Tasks |-> 1]
    /\ \E pairs \in Snapshots :
          all_pairs = [p \in Tasks |-> IF p = "t1" THEN pairs ELSE <<>>]
    /\ ins_i = [p \in Tasks |-> 1]
    /\ ret = NoCall
    /\ pairs_by = "none"
    /\ fetch_feed = [p \in Tasks |-> None]
    /\ pairs_feed = None

\* find_price_differences(&pairs)
Scan ==
    /\ ret' = Applied("find_price_differences", all_pairs["t1"],
                      find_price_differences(all_pairs["t1"]))
    /\ UNCHANGED <<feed, now, ticks, cache, pairs_cache, cache_lock, pairs_lock, pc,
                   term_i, all_pairs, ins_i, pairs_by, fetch_feed, pairs_feed>>

NextScan == Scan

SpecScan == InitScan /\ [][NextScan]_vars

\* the prices listed under a pair identity in a snapshot
PricesOf(pairs, key) ==
    {pairs[i].price : i \in {j \in 1..Len(pairs) : group_key(pairs[j]) = key}}

\* how many listings a snapshot has under a pair identity
ListingsOf(pairs, key) ==
    Cardinality({j \in 1..Len(pairs) : group_key(pairs[j]) = key})

Least(prices) == CHOOSE x \in prices : \A y \in prices : x <= y

Greatest(prices) == CHOOSE x \in prices : \A y \in prices : y <= x

\* (max - min) / min * 100 > 0.5, in exact arithmetic
SpreadOverHalfPercent(prices) ==
    /\ Least(prices) > 0
    /\ (Greatest(prices) - Least(prices)) * 200 > Least(prices)

\* the signals of a scan for a pair identity
SignalsFor(key) == {sig \in ret.val : sig.pair_id = key}

\* C12: the scanner emits a signal for a pair identity exactly when it has two
\* listings or more, a least price over 0 and (max - min) / min * 100 strictly
\* over 0.5, a spread of exactly 0.5 emitting nothing; the low side of the
\* signal is the least price of the group, the high side the greatest (85 and
\* 80 give low 80, high 85; 1850 and 1852 give no signal).
C12_SignalIffSpreadOverHalfPercent ==
    ret.op = "find_price_differences" =>
        /\ \A sig \in ret.val : \E i \in 1..Len(ret.base) : group_key(ret.base[i]) = sig.pair_id
        /\ \A i \in 1..Len(ret.base) :
              LET key    == group_key(ret.base[i])
                  prices == PricesOf(ret.base, key)
              IN  /\ Cardinality(SignalsFor(key)) <= 1
                  /\ (SignalsFor(key) # {}) <=>
                        (ListingsOf(ret.base, key) >= 2 /\ SpreadOverHalfPercent(prices))
                  /\ \A sig \in SignalsFor(key) :
                        /\ sig.min_price = Least(prices)
                        /\ sig.max_price = Greatest(prices)
                  /\ prices = {85 * Scale, 80 * Scale} =>
                        \E sig \in SignalsFor(key) :
                            sig.min_price = 80 * Scale /\ sig.max_price = 85 * Scale
                  /\ prices = {1850 * Scale, 1852 * Scale} => SignalsFor(key) = {}
                  /\ (Least(prices) > 0
                        /\ (Greatest(prices) - Least(prices)) * 200 = Least(prices))
                        => SignalsFor(key) = {}

\* a scan of WETH at 1850 and METIS at 80 and 80.4, a spread of exactly 0.5,
\* has emitted nothing
C12_ExactHalfPercentNoSignal ==
    /\ ret.op = "find_price_differences"
    /\ Len(ret.base) = 3
    /\ ret.val = {}
    /\ \E i, j \in 1..Len(ret.base) :
          /\ group_key(ret.base[i]) = group_key(ret.base[j])
          /\ ret.base[i].price > 0
          /\ (ret.base[j].price - ret.base[i].price) * 200 = ret.base[i].price

\* C13: a pair identity with exactly one listing in the snapshot produces no
\* signal, whatever its price.
C13_SingleListingNoSignal ==
    ret.op = "find_price_differences" =>
        \A i \in 1..Len(ret.base) :
            ListingsOf(ret.base, group_key(ret.base[i])) = 1 =>
                SignalsFor(group_key(ret.base[i])) = {}

\* a scan has reported one pair identity and left out another that has one
\* listing
C13_SingleListingBesideSignal ==
    /\ ret.op = "find_price_differences"
    /\ ret.val # {}
    /\ \E i \in 1..Len(ret.base) :
          /\ ListingsOf(ret.base, group_key(ret.base[i])) = 1
          /\ ret.base[i].price > 0
          /\ SignalsFor(group_key(ret.base[i])) = {}

---------------------------------------------------------------------------
(* Failed searches *)

\* the searches of a feed that failed: no response, a non-success status or
\* an undecodable body
FailedTerms(f) == {t \in Terms : f[t].kind \in FailureKinds}

\* the records of the searches that succeeded which pass the filter and convert
ValidRecords(f) ==
    {r \in UNION {{RecordsOf(f[t])[k] : k \in 1..Len(RecordsOf(f[t]))} :
                     t \in Terms \ FailedTerms(f)} :
        Allowed(r) /\ PricePositive(r) /\ ReportedUsd(r) >= 1000}

\* C14: a failed search (no response, a non-success status, an undecodable
\* body) does not abort the fetch: the valid pairs of the other searches are
\* in the snapshot; when every search fails the fetch yields an empty list,
\* and refresh returns Ok in every case.
C14_FailedTermNotFatal ==
    /\ \A pairs \in Fetched :
          /\ \A r \in ValidRecords(feed) : \E i \in 1..Len(pairs) : ListedAs(pairs[i], r)
          /\ FailedTerms(feed) = Terms => pairs = <<>>
    /\ ret.op = "refresh" => ret.val = <<"Ok">>

\* refresh has returned Ok with pairs stored from the second search, the first
\* and the third having failed
C14_RefreshOkAfterFailures ==
    /\ ret.op = "refresh"
    /\ ret.val = <<"Ok">>
    /\ pairs_by = "refresh"
    /\ pairs_cache # <<>>
    /\ FailedTerms(feed) = {search_terms[1], search_terms[3]}
    /\ feed[search_terms[1]].kind # feed[search_terms[3]].kind

---------------------------------------------------------------------------
(* Writers of the caches *)

\* the step is a write of refresh by task p: the replace of the pair list or
\* an insert of its loop
RefreshWrites(p) ==
    \/ pc[p] = "r_write" /\ pc'[p] = "r_insert"
    \/ pc[p] = "r_insert" /\ ins_i'[p] = ins_i[p] + 1

\* the step is the store of a warm-up of get_trading_pairs by task p
WarmupStores(p) == pc[p] = "g_fetch" /\ pc'[p] = "idle"

\* C15 as stated: refresh is the only operation that writes the caches;
\* get_price, get_liquidity and get_trading_pairs leave the pair-list cache
\* and the price cache as they are.
C15_OnlyRefreshWrites ==
    [][(cache' # cache \/ pairs_cache' # pairs_cache) =>
          \E p \in Tasks : RefreshWrites(p)]_vars

\* C15 amended: refresh is the only operation that writes the price cache,
\* and get_price and get_liquidity leave both caches as they are; the pair
\* list is written by refresh and by the warm-up of get_trading_pairs, which
\* stores the list it fetched after finding the pair list empty; a
\* get_trading_pairs that finds pairs in the list leaves both caches as they
\* are.
C15_WritersOfTheCaches ==
    [][/\ cache' # cache => \E p \in Tasks : RefreshWrites(p)
       /\ pairs_cache' # pairs_cache =>
             \E p \in Tasks : RefreshWrites(p) \/ WarmupStores(p)
       /\ (pc' = pc /\ ret'.op \in {"get_price", "get_liquidity", "get_trading_pairs"}) =>
             (cache' = cache /\ pairs_cache' = pairs_cache)]_vars

\* get_trading_pairs has returned the list its warm-up has just stored, the
\* price cache holding nothing
C15_WarmupWrote ==
    /\ ret.op = "get_trading_pairs"
    /\ pairs_by = "warmup"
    /\ pairs_cache # <<>>
    /\ ret.val = pairs_cache
    /\ DOMAIN cache = {}

---------------------------------------------------------------------------
(* Timestamps *)

\* C16: the timestamp stored under a key of the price cache never decreases,
\* over any interleaving of refresh calls, the clock not going back: an
\* overwrite stamps the entry with a time not earlier than the one it replaces.
C16_TimestampMonotone ==
    [][\A k \in DOMAIN cache :
          /\ k \in DOMAIN cache'
          /\ cache'[k].timestamp >= cache[k].timestamp]_vars

\* a refresh has overwritten the entry of its first insert by its third, the
\* clock having advanced since its second
C16_OverwrittenLater ==
    \E p \in Tasks :
        /\ pc[p] = "r_insert"
        /\ ins_i[p] = 4
        /\ insert_key(all_pairs[p], 1) = insert_key(all_pairs[p], 3)
        /\ cache[insert_key(all_pairs[p], 3)].timestamp
              > cache[insert_key(all_pairs[p], 2)].timestamp

---------------------------------------------------------------------------
(* Identifiers *)

\* C17: for a TradingPair built from base symbol b, quote symbol q and
\* exchange name e, pair_id() is "b/q" and full_id() is "e:b/q", that is the
\* exchange name, a colon and pair_id().
C17_PairIdAndFullId ==
    /\ ret.op = "pair_id" =>
          ret.val = ret.base.base_token.symbol \o <<"/">> \o ret.base.quote_token.symbol
    /\ ret.op = "full_id" =>
          /\ ret.val = ret.base.exchange.name \o <<":">> \o ret.base.base_token.symbol
                          \o <<"/">> \o ret.base.quote_token.symbol
          /\ ret.val = ret.base.exchange.name \o <<":">> \o pair_id(ret.base)
          /\ Len(ret.val) = Len(ret.base.exchange.name) + Len(pair_id(ret.base)) + 1

\* full_id() of WETH / USDC on netswap has returned "netswap:W/U"
C17_FullIdOfTestPair ==
    /\ ret.op = "full_id"
    /\ ret.base.base_token.symbol = SymW
    /\ ret.base.quote_token.symbol = SymU
    /\ ret.base.exchange.name = S_netswap
    /\ ret.val = <<"n", "e", "t", "s", "w", "a", "p", ":", "W", "/", "U">>

---------------------------------------------------------------------------
(* price_feed.rs: MockPriceFeed.  Its `pairs` field is kept in pairs_cache. *)

\* a pair of MockPriceFeed::new: on `dex`, base/USDC, at whole prices
MockPair(base, dex, price, liquidity) ==
    TradingPair(Token(base), Token(SymU), Exchange(dex, S_Metis),
                DecimalFrom(price), DecimalFrom(liquidity))

\* MockPriceFeed::new: the four pairs of the fixture
MockPairs ==
    <<MockPair(SymW, S_netswap, 1850, 500000),
      MockPair(SymW, S_tethys, 1852, 350000),
      MockPair(SymM, S_netswap, 85, 200000),
      MockPair(SymM, S_tethys, 84, 150000)>>

\* self.pairs.iter().find(|p| base and quote symbols match): the first match
mock_find(pairs, base, quote) ==
    LET hits == {i \in 1..Len(pairs) : /\ pairs[i].base_token.symbol = base
                                       /\ pairs[i].quote_token.symbol = quote}
    IN  IF hits = {} THEN None
        ELSE Some(pairs[CHOOSE i \in hits : \A j \in hits : i <= j])

\* a get_price that matches on the base symbol alone
mock_get_price_by_base(pairs, base, quote) ==
    LET found == mock_find(pairs, base, SymU)
    IN  IF IsSome(found) THEN Some(Unwrap(found).price) ELSE None

\* MockPriceFeed::get_price
mock_get_price(pairs, base, quote) ==
    LET found == mock_find(pairs, base, quote)
    IN  IF IsSome(found) THEN Some(Unwrap(found).price) ELSE None

\* MockPriceFeed::get_liquidity
mock_get_liquidity(pairs, base, quote) ==
    LET found == mock_find(pairs, base, quote)
    IN  IF IsSome(found) THEN Some(Unwrap(found).liquidity) ELSE None

\* the symbols the fixture is asked about: its three tokens, one it does not
\* list and one in lower case
MockSymbols == {SymW, SymU, SymM, <<"X">>, <<"w">>}

InitMock ==
    /\ feed = FeedB
    /\ now = 0
    /\ ticks = 0
    /\ cache = EmptyMap
    /\ pairs_cache = MockPairs
    /\ cache_lock = None
    /\ pairs_lock = None
    /\ pc = [p \in Tasks |-> "idle"]
    /\ term_i = [p \in Tasks |-> 1]
    /\ all_pairs = [p \in Tasks |-> <<>>]
    /\ ins_i = [p \in Tasks |-> 1]
    /\ ret = NoCall
    /\ pairs_by = "none"
    /\ fetch_feed = [p \in Tasks |-> None]
    /\ pairs_feed = None

\* MockPriceFeed::refresh: Ok(()), nothing else
MockRefresh ==
    /\ ret' = Returned("refresh", <<>>, <<>>, <<"Ok">>)
    /\ UNCHANGED <<feed, now, ticks, cache, pairs_cache, cache_lock, pairs_lock, pc,
                   term_i, all_pairs, ins_i, pairs_by, fetch_feed, pairs_feed>>

\* MockPriceFeed::get_trading_pairs: self.pairs.clone()
MockGetTradingPairs ==
    /\ ret' = Returned("get_trading_pairs", <<>>, <<>>, pairs_cache)
    /\ UNCHANGED <<feed, now, ticks, cache, pairs_cache, cache_lock, pairs_lock, pc,
                   term_i, all_pairs, ins_i, pairs_by, fetch_feed, pairs_feed>>

MockGetPrice ==
    /\ \E base \in MockSymbols, quote \in MockSymbols :
          ret' = Returned("get_price", base, quote,
                          mock_get_price(pairs_cache, base, quote))
    /\ UNCHANGED <<feed, now, ticks, cache, pairs_cache, cache_lock, pairs_lock, pc,
                   term_i, all_pairs, ins_i, pairs_by, fetch_feed, pairs_feed>>

MockGetLiquidity ==
    /\ \E base \in MockSymbols, quote \in MockSymbols :
          ret' = Returned("get_liquidity", base, quote,
                          mock_get_liquidity(pairs_cache, base, quote))
    /\ UNCHANGED <<feed, now, ticks, cache, pairs_cache, cache_lock, pairs_lock, pc,
                   term_i, all_pairs, ins_i, pairs_by, fetch_feed, pairs_feed>>

NextMock ==
    \/ Tick
    \/ MockRefresh
    \/ MockGetTradingPairs
    \/ MockGetPrice
    \/ MockGetLiquidity

\* calls on one MockPriceFeed while the clock advances
SpecMock == InitMock /\ [][NextMock]_vars

\* the pairs of the fixture under a base and a quote symbol
Fixture(base, quote) ==
    {i \in 1..Len(MockPairs) : /\ MockPairs[i].base_token.symbol = base
                               /\ MockPairs[i].quote_token.symbol = quote}

\* C18: after any sequence of calls the fixture holds and returns the same
\* non-empty pair list, refresh changing nothing; get_price(b, q) and
\* get_liquidity(b, q) return Some exactly when a pair of the list has base
\* symbol b and quote symbol q, and the price returned is over 0.
C18_MockIsFixed ==
    /\ pairs_cache = MockPairs
    /\ MockPairs # <<>>
    /\ ret.op = "get_trading_pairs" => ret.val = MockPairs
    /\ ret.op = "refresh" => ret.val = <<"Ok">>
    /\ ret.op = "get_price" =>
          /\ IsSome(ret.val) <=> Fixture(ret.base, ret.quote) # {}
          /\ IsSome(ret.val) =>
                /\ Unwrap(ret.val) > 0
                /\ \E i \in Fixture(ret.base, ret.quote) : MockPairs[i].price = Unwrap(ret.val)
    /\ ret.op = "get_liquidity" =>
          /\ IsSome(ret.val) <=> Fixture(ret.base, ret.quote) # {}
          /\ IsSome(ret.val) =>
                \E i \in Fixture(ret.base, ret.quote) : MockPairs[i].liquidity = Unwrap(ret.val)

\* get_price("WETH", "USDC") has returned 1850 with the clock two minutes on
C18_MockPriceAfterTime ==
    /\ ret.op = "get_price"
    /\ ret.base = SymW
    /\ ret.quote = SymU
    /\ ret.val = Some(1850 * Scale)
    /\ now > 120000

---------------------------------------------------------------------------
(* Calls that wait.  Here a read is two steps, the call and the read made   *)
(* once the read guard is granted, so that a call can be seen waiting.      *)

\* a task calls `op` and waits for the guard the operation takes first
Call(p, at) ==
    /\ pc[p] = "idle"
    /\ pc' = [pc EXCEPT ![p] = at]
    /\ ret' = NoCall
    /\ UNCHANGED <<feed, now, ticks, cache, pairs_cache, cache_lock, pairs_lock,
                   term_i, all_pairs, ins_i, pairs_by, fetch_feed, pairs_feed>>

GetPriceCall(p) == Call(p, "gp_call")

GetLiquidityCall(p) == Call(p, "gl_call")

GetTradingPairsCall(p) == Call(p, "g_call")

\* get_price: self.cache.read().await is granted, the value is returned
GetPriceRead(p) ==
    /\ pc[p] = "gp_call"
    /\ can_read(cache_lock)
    /\ \E a \in Queries :
          ret' = Returned("get_price", a[1], a[2], get_price(cache, a[1], a[2], now))
    /\ pc' = [pc EXCEPT ![p] = "idle"]
    /\ UNCHANGED <<feed, now, ticks, cache, pairs_cache, cache_lock, pairs_lock,
                   term_i, all_pairs, ins_i, pairs_by, fetch_feed, pairs_feed>>

\* get_liquidity: self.cache.read().await is granted, the value is returned
GetLiquidityRead(p) ==
    /\ pc[p] = "gl_call"
    /\ can_read(cache_lock)
    /\ \E a \in Queries :
          ret' = Returned("get_liquidity", a[1], a[2], get_liquidity(cache, a[1], a[2]))
    /\ pc' = [pc EXCEPT ![p] = "idle"]
    /\ UNCHANGED <<feed, now, ticks, cache, pairs_cache, cache_lock, pairs_lock,
                   term_i, all_pairs, ins_i, pairs_by, fetch_feed, pairs_feed>>

\* get_trading_pairs: self.pairs_cache.read().await is granted and the list
\* has pairs
GetTradingPairsReadCached(p) ==
    /\ pc[p] = "g_call"
    /\ can_read(pairs_lock)
    /\ ~cache_is_empty(pairs_cache)
    /\ ret' = Returned("get_trading_pairs", <<>>, <<>>, pairs_cache)
    /\ pc' = [pc EXCEPT ![p] = "idle"]
    /\ UNCHANGED <<feed, now, ticks, cache, pairs_cache, cache_lock, pairs_lock,
                   term_i, all_pairs, ins_i, pairs_by, fetch_feed, pairs_feed>>

\* get_trading_pairs: self.pairs_cache.read().await is granted and the list
\* is empty
GetTradingPairsReadMiss(p) ==
    /\ pc[p] = "g_call"
    /\ can_read(pairs_lock)
    /\ cache_is_empty(pairs_cache)
    /\ begin_fetch(p, "g_fetch")
    /\ ret' = NoCall
    /\ UNCHANGED <<feed, now, ticks, cache, pairs_cache, cache_lock, pairs_lock,
                   ins_i, pairs_by, pairs_feed>>

\* the steps of a call that wait for a guard
Acquire(p) ==
    \/ RefreshLockCache(p)
    \/ RefreshLockPairs(p)
    \/ GetTradingPairsStore(p)
    \/ GetPriceRead(p)
    \/ GetLiquidityRead(p)
    \/ GetTradingPairsReadCached(p)
    \/ GetTradingPairsReadMiss(p)

\* the steps of a call that wait for nothing but the scheduler
Proceed(p) ==
    \/ RefreshWritePairs(p)
    \/ RefreshInsert(p)
    \/ RefreshUnlockPairs(p)
    \/ RefreshReturn(p)

NextLive ==
    \E p \in Tasks :
        \/ RefreshCall(p)
        \/ GetPriceCall(p)
        \/ GetLiquidityCall(p)
        \/ GetTradingPairsCall(p)
        \/ FetchAll(p)
        \/ Acquire(p)
        \/ Proceed(p)

\* the requests of the fetch of task p are still to be answered
FetchPending(p) == pc[p] \in {"r_fetch", "g_fetch"} /\ ~fetch_done(p)

\* each request ends (an answer, a failure or the 10 s timeout of the client),
\* which is weak fairness of FetchAll: no fetch is pending for ever; each task
\* is scheduled; and tokio's RwLock is fair: a task that waits for a guard
\* which is free again and again gets it
Fairness ==
    \A p \in Tasks :
        /\ []<>(~FetchPending(p))
        /\ WF_vars(Proceed(p))
        /\ SF_vars(Acquire(p))

SpecLive == Init /\ [][NextLive]_vars /\ Fairness

\* C19: no call blocks for ever: whatever refresh, get_trading_pairs,
\* get_price and get_liquidity calls run together on one MetisPriceFeed, each
\* request ending and the scheduling being fair, every call returns.
C19_EveryCallReturns ==
    \A p \in Tasks : (pc[p] # "idle") ~> (pc[p] = "idle")

\* a get_price call waits for the read guard while a refresh that holds both
\* write guards is in its loop of inserts
C19_ReaderWaitsForRefresh ==
    \E p \in Tasks, q \in Tasks :
        /\ pc[p] = "gp_call"
        /\ pc[q] = "r_insert"
        /\ cache_lock = Some(q)
        /\ pairs_lock = Some(q)

---------------------------------------------------------------------------
(* The requests of one fetch *)

\* the three search terms in their order
SearchOrder ==
    <<(<<"m", "e", "t", "i", "s">>), (<<"n", "e", "t", "s", "w", "a", "p">>),
      (<<"t", "e", "t", "h", "y", "s">>)>>

\* task p is inside fetch_metis_pairs
InFetch(p) == pc[p] \in {"r_fetch", "g_fetch"}

\* C20: within one refresh each of the search terms "metis", "netswap" and
\* "tethys" is queried once, in that order: a request, failed or not, moves
\* the fetch on to the next term, the fetch ends after the third, and a term
\* is queried again only by a later fetch, which starts from the first.
C20_EachTermOnceInOrder ==
    [][\A p \in Tasks :
          /\ (InFetch(p) /\ term_i'[p] # term_i[p]) =>
                /\ pc'[p] = pc[p]
                /\ term_i[p] \in 1..3
                /\ term_i'[p] = term_i[p] + 1
                /\ search_terms[term_i[p]] = SearchOrder[term_i[p]]
                /\ feed[search_terms[term_i[p]]].kind \in FailureKinds =>
                      all_pairs'[p] = all_pairs[p]
          /\ (InFetch(p) /\ pc'[p] # pc[p]) => term_i[p] = 4
          /\ (~InFetch(p) /\ term_i'[p] # term_i[p]) =>
                (pc[p] = "idle" /\ pc'[p] \in {"r_fetch", "g_fetch"} /\ term_i'[p] = 1)]_vars

\* a later refresh has queried again the first term, which fails, and is at
\* the second
C20_FailedTermTriedByLaterRefresh ==
    \E p \in Tasks :
        /\ pc[p] = "r_fetch"
        /\ term_i[p] = 2
        /\ pairs_by = "refresh"
        /\ feed[search_terms[1]].kind \in FailureKinds

---------------------------------------------------------------------------
(* Entries of pairs that left the snapshot *)

\* the pair list holds a pair whose price or liquidity key is k
Listed(k) == \E i \in 1..Len(pairs_cache) : k \in KeysOf(pairs_cache[i])

\* C21: no entry of the price cache is ever deleted: over every step the keys
\* of the cache only grow, and an entry is read whether or not the pair list
\* still holds its pair: get_liquidity returns it at any age, get_price while
\* it is less than 61 seconds old.
C21_EntriesNeverDeleted ==
    [][/\ DOMAIN cache \subseteq DOMAIN cache'
       /\ \A k \in DOMAIN cache' :
             /\ (ret'.op = "get_liquidity" /\ k = liq_key(ret'.base, ret'.quote)) =>
                   ret'.val = Some(cache'[k].price)
             /\ (/\ ret'.op = "get_price"
                 /\ k = price_key(ret'.base, ret'.quote)
                 /\ now' - cache'[k].timestamp < (PRICE_MAX_AGE + 1) * 1000) =>
                   ret'.val = Some(cache'[k].price)]_vars

\* get_price has returned the price of a pair after a later refresh has
\* stored an empty pair list
C21_PriceOfDelistedPair ==
    /\ ret.op = "get_price"
    /\ IsSome(ret.val)
    /\ pairs_by = "refresh"
    /\ pairs_cache = <<>>
    /\ cache_lock = None
    /\ ~Listed(price_key(ret.base, ret.quote))

---------------------------------------------------------------------------
(* main.rs: the scan loop.  The loop calls its feed through                 *)
(* Arc<dyn PriceFeed + Send + Sync>, so the feed is taken here at the level *)
(* of the trait: refresh returns Ok(()) or Err, get_trading_pairs returns   *)
(* the list the feed holds.  Task "t1" is main; ticks is scan_count.        *)

\* const SCAN_INTERVAL_SECONDS: u64 = 30
SCAN_INTERVAL_SECONDS == 30

\* the lists the feed may hold after a refresh
DriverLists == {pairs \in Snapshots : Len(pairs) <= MaxListed}

\* main is at `loop {`, about to await interval.tick()
InitDriver ==
    /\ feed = FeedB
    /\ now = 0
    /\ ticks = 0
    /\ cache = EmptyMap
    /\ pairs_cache = <<>>
    /\ cache_lock = None
    /\ pairs_lock = None
    /\ pc = [p \in Tasks |-> IF p = "t1" THEN "m_tick" ELSE "idle"]
    /\ term_i = [p \in Tasks |-> 1]
    /\ all_pairs = [p \in Tasks |-> <<>>]
    /\ ins_i = [p \in Tasks |-> 1]
    /\ ret = NoCall
    /\ pairs_by = "none"
    /\ fetch_feed = [p \in Tasks |-> None]
    /\ pairs_feed = None

\* interval.tick().await completes (the first at once, the others one period
\* after the one before), scan_count += 1, and refresh is called
IntervalTick ==
    /\ pc["t1"] = "m_tick"
    /\ ticks < MaxTicks
    /\ now' = IF ticks = 0 THEN now ELSE now + SCAN_INTERVAL_SECONDS * 1000
    /\ ticks' = ticks + 1
    /\ pc' = [pc EXCEPT !["t1"] = "m_refresh"]
    /\ ret' = NoCall
    /\ UNCHANGED <<feed, cache, pairs_cache, cache_lock, pairs_lock, term_i,
                   all_pairs, ins_i, pairs_by, fetch_feed, pairs_feed>>

\* price_feed.refresh().await is Ok(_): the feed holds a new list, and
\* get_trading_pairs is called
DriverRefreshOk ==
    /\ pc["t1"] = "m_refresh"
    /\ pairs_cache' \in DriverLists
    /\ pairs_by' = "refresh"
    /\ pc' = [pc EXCEPT !["t1"] = "m_pairs"]
    /\ ret' = Returned("refresh", <<>>, <<>>, <<"Ok">>)
    /\ UNCHANGED <<feed, now, ticks, cache, cache_lock, pairs_lock, term_i,
                   all_pairs, ins_i, fetch_feed, pairs_feed>>

\* a loop that goes on to get_trading_pairs after a refresh error
DriverRefreshErrScans ==
    /\ pc["t1"] = "m_refresh"
    /\ pc' = [pc EXCEPT !["t1"] = "m_pairs"]
    /\ ret' = Returned("refresh", <<>>, <<>>, <<"Err">>)
    /\ UNCHANGED <<feed, now, ticks, cache, pairs_cache, cache_lock, pairs_lock,
                   term_i, all_pairs, ins_i, pairs_by, fetch_feed, pairs_feed>>

\* price_feed.refresh().await is Err(e): the error is logged and the match
\* ends; main is back at interval.tick()
DriverRefreshErr ==
    /\ pc["t1"] = "m_refresh"
    /\ pc' = [pc EXCEPT !["t1"] = "m_tick"]
    /\ ret' = Returned("refresh", <<>>, <<>>, <<"Err">>)
    /\ UNCHANGED <<feed, now, ticks, cache, pairs_cache, cache_lock, pairs_lock,
                   term_i, all_pairs, ins_i, pairs_by, fetch_feed, pairs_feed>>

\* let pairs = price_feed.get_trading_pairs().await
DriverGetTradingPairs ==
    /\ pc["t1"] = "m_pairs"
    /\ all_pairs' = [all_pairs EXCEPT !["t1"] = pairs_cache]
    /\ pc' = [pc EXCEPT !["t1"] = "m_scan"]
    /\ ret' = Returned("get_trading_pairs", <<>>, <<>>, pairs_cache)
    /\ UNCHANGED <<feed, now, ticks, cache, pairs_cache, cache_lock, pairs_lock,
                   term_i, ins_i, pairs_by, fetch_feed, pairs_feed>>

\* find_price_differences(&pairs).await; the arm ends and `pairs` is dropped
DriverScan ==
    /\ pc["t1"] = "m_scan"
    /\ ret' = Applied("find_price_differences", all_pairs["t1"],
                      find_price_differences(all_pairs["t1"]))
    /\ all_pairs' = [all_pairs EXCEPT !["t1"] = <<>>]
    /\ pc' = [pc EXCEPT !["t1"] = "m_tick"]
    /\ UNCHANGED <<feed, now, ticks, cache, pairs_cache, cache_lock, pairs_lock,
                   term_i, ins_i, pairs_by, fetch_feed, pairs_feed>>

NextDriver ==
    \/ IntervalTick
    \/ DriverRefreshOk
    \/ DriverRefreshErr
    \/ DriverGetTradingPairs
    \/ DriverScan

SpecDriver == InitDriver /\ [][NextDriver]_vars

\* the moves of main from one await of the loop to the next
CycleOrder ==
    {<<"m_tick", "m_refresh">>, <<"m_refresh", "m_pairs">>, <<"m_pairs", "m_scan">>,
     <<"m_scan", "m_tick">>, <<"m_refresh", "m_tick">>}

\* C22: each cycle of the loop runs refresh, then get_trading_pairs, then the
\* scanner, in that order, and the next cycle starts only when this one has
\* ended: the scan count moves only at the tick that starts a cycle.
\* get_trading_pairs and the scanner run only in a cycle whose refresh
\* returned Ok, the scanner on the list get_trading_pairs returned; a refresh
\* error ends the cycle with no scan and leaves the loop at its next tick.
C22_CycleInOrder ==
    [][/\ <<pc["t1"], pc'["t1"]>> \in CycleOrder
       /\ ticks' # ticks <=> pc["t1"] = "m_tick"
       /\ pc'["t1"] = "m_refresh" <=> ret'.op = "none"
       /\ pc'["t1"] = "m_pairs" <=> (ret'.op = "refresh" /\ ret'.val = <<"Ok">>)
       /\ pc'["t1"] = "m_scan" <=> ret'.op = "get_trading_pairs"
       /\ ret'.op = "get_trading_pairs" =>
             (ret.op = "refresh" /\ ret.val = <<"Ok">> /\ ret'.val = pairs_cache)
       /\ ret'.op = "find_price_differences" =>
             (ret.op = "get_trading_pairs" /\ ret'.base = ret.val /\ pc'["t1"] = "m_tick")
       /\ (ret'.op = "refresh" /\ ret'.val # <<"Ok">>) =>
             (pc'["t1"] = "m_tick" /\ pairs_cache' = pairs_cache)
       /\ (ret.op = "refresh" /\ ret.val # <<"Ok">>) =>
             (pc'["t1"] = "m_refresh" /\ ret'.op = "none")]_vars

\* the refresh of the first cycle failed, no list was ever stored, and the
\* second cycle has called refresh again
C22_RefreshTriedAgainAfterError ==
    /\ pc["t1"] = "m_refresh"
    /\ ticks = 2
    /\ pairs_by = "none"
    /\ now = SCAN_INTERVAL_SECONDS * 1000

---------------------------------------------------------------------------
(* The scanner on the snapshots of MetisPriceFeed *)

\* main.rs: find_price_differences(&pairs) on the list that
\* price_feed.get_trading_pairs().await has just returned
ScanReturned ==
    /\ ret.op = "get_trading_pairs"
    /\ ret' = Applied("find_price_differences", ret.val, find_price_differences(ret.val))
    /\ UNCHANGED <<feed, now, ticks, cache, pairs_cache, cache_lock, pairs_lock, pc,
                   term_i, all_pairs, ins_i, pairs_by, fetch_feed, pairs_feed>>

NextFetchScan == NextFetch \/ ScanReturned

\* one task calling refresh, get_trading_pairs and the scanner on what
\* get_trading_pairs returned, over a fixed upstream feed
SpecFetchScan == InitFetch /\ [][NextFetchScan]_vars

\* the exchanges a snapshot lists a pair identity on
ExchangesOf(pairs, key) ==
    {pairs[i].exchange.name : i \in {j \in 1..Len(pairs) : group_key(pairs[j]) = key}}

\* C23: on every snapshot get_trading_pairs of MetisPriceFeed returns, each
\* signal of the scanner is for a pair identity listed on two exchanges or
\* more, no exchange listing it twice, and names two different exchanges as
\* its low side and its high side.
C23_SignalNamesTwoExchanges ==
    ret.op = "find_price_differences" =>
        \A sig \in ret.val :
            /\ sig.min_exchange # sig.max_exchange
            /\ {sig.min_exchange, sig.max_exchange} \subseteq ExchangesOf(ret.base, sig.pair_id)
            /\ Cardinality(ExchangesOf(ret.base, sig.pair_id)) >= 2
            /\ Cardinality(ExchangesOf(ret.base, sig.pair_id))
                  = ListingsOf(ret.base, sig.pair_id)

\* the scanner has emitted a signal on a snapshot of a feed that lists one
\* pair twice on one exchange, at two prices
C23_SignalAfterDuplicateDropped ==
    /\ ret.op = "find_price_differences"
    /\ ret.val # {}
    /\ LET found == Converted(FeedRecords(feed))
       IN  \E i, j \in 1..Len(found) :
              /\ full_id(found[i]) = full_id(found[j])
              /\ found[i].price # found[j].price
              /\ \E sig \in ret.val : sig.pair_id = group_key(found[i])

---------------------------------------------------------------------------
(* One pair on several exchanges *)

\* one task calling refresh, get_trading_pairs, get_price and get_liquidity
\* over a fixed upstream feed
NextFetchRead == NextFetch \/ GetPrice("t1") \/ GetLiquidity("t1")

SpecFetchRead == InitFetch /\ [][NextFetchRead]_vars

\* the places of a list that hold a pair of base symbol `base` and quote
\* symbol `quote`
PlacesOf(pairs, base, quote) ==
    {i \in 1..Len(pairs) : /\ pairs[i].base_token.symbol = base
                            /\ pairs[i].quote_token.symbol = quote}

\* the last of a non-empty set of places
Last(places) == CHOOSE i \in places : \A j \in places : j <= i

\* C24: a read made right after a refresh has returned Ok sees, under the one
\* key of a (base, quote), what the refresh wrote for the last pair of its
\* snapshot with these symbols: get_price returns the price of that pair and
\* get_liquidity its liquidity, on whichever exchange the earlier pairs are
\* and whatever their prices.
C24_LastListingWins ==
    [][(/\ ret.op = "refresh"
        /\ ret.val = <<"Ok">>
        /\ ret'.op \in {"get_price", "get_liquidity"}) =>
          LET places == PlacesOf(pairs_cache, ret'.base, ret'.quote)
          IN  places # {} =>
                    /\ ret'.op = "get_price" =>
                          ret'.val = Some(pairs_cache[Last(places)].price)
                    /\ ret'.op = "get_liquidity" =>
                          ret'.val = Some(pairs_cache[Last(places)].liquidity)
                    /\ cache[price_key(ret'.base, ret'.quote)].source
                          = SourcePrefix \o pairs_cache[Last(places)].exchange.name
                    /\ cache[liq_key(ret'.base, ret'.quote)].source
                          = SourcePrefix \o pairs_cache[Last(places)].exchange.name]_vars

\* get_price has returned the price of the second of two listings of one
\* pair, which is the higher of the two
C24_SecondListingRead ==
    /\ ret.op = "get_price"
    /\ pairs_by = "refresh"
    /\ LET places == PlacesOf(pairs_cache, ret.base, ret.quote)
       IN  /\ Cardinality(places) = 2
           /\ ret.val = Some(pairs_cache[Last(places)].price)
           /\ \E i \in places : pairs_cache[i].price < pairs_cache[Last(places)].price

---------------------------------------------------------------------------
(* Calls that overlap while the upstream moves on.  The upstream goes       *)
(* through a run of distinct data sets and never back, so the data a fetch  *)
(* saw tells which of two fetches was made first.                           *)

\* METIS/USDC on tethys and WETH/USDC on netswap; the third search is refused
FeedC == Feed(Ok(<<R_tet_MU, R_net_WU>>), OkNoPairs, Failed("status_err"))

\* the data sets the upstream serves, one after the other
FeedHistory == <<FeedB, FeedA, FeedC>>

\* the place of a data set in the history of the upstream
Version(f) == CHOOSE v \in 1..Len(FeedHistory) : FeedHistory[v] = f

InitRace == feed = FeedHistory[1] /\ InitLocal

\* the upstream moves on to its next data set
FeedAdvances ==
    /\ Version(feed) < Len(FeedHistory)
    /\ feed' = FeedHistory[Version(feed) + 1]
    /\ ret' = NoCall
    /\ UNCHANGED <<now, ticks, cache, pairs_cache, cache_lock, pairs_lock, pc,
                   term_i, all_pairs, ins_i, pairs_by, fetch_feed, pairs_feed>>

NextRace ==
    \/ FeedAdvances
    \/ \E p \in Tasks :
          \/ FetchAll(p)
          \/ Refresh(p)
          \/ GetTradingPairs(p)

\* tasks calling refresh and get_trading_pairs concurrently while the
\* upstream moves on
SpecRace == InitRace /\ [][NextRace]_vars

\* the step is a store of the pair list by task p, from refresh or from the
\* warm-up of get_trading_pairs
StoresPairs(p) ==
    \/ pc[p] = "r_write" /\ pc'[p] = "r_insert"
    \/ pc[p] = "g_fetch" /\ pc'[p] = "idle"

\* C25: under concurrent calls the pair list is never overwritten with a
\* snapshot fetched earlier than the one it holds: a warm-up or a refresh
\* whose fetch was made before the fetch of the list already stored does not
\* replace that list.
C25_NoOlderOverwrite ==
    [][\A p \in Tasks :
          (StoresPairs(p) /\ IsSome(pairs_feed) /\ IsSome(fetch_feed[p])) =>
              \/ Version(Unwrap(fetch_feed[p])) >= Version(Unwrap(pairs_feed))
              \/ pairs_cache' = pairs_cache]_vars

---------------------------------------------------------------------------
(* Token symbols are whatever DEX Screener reports: baseToken.symbol and    *)
(* quoteToken.symbol are copied as they come.                               *)

\* the symbol of a token named "U-liq"
SymUliq == SymU \o <<"-", "l", "i", "q">>

\* accepted: METIS against the token "U-liq" on netswap
R_net_MUliq == DexScreenerPair(S_metis, S_netswap, SymM, SymUliq, Some(<<"8", "5">>), None, Liq(1000))

\* the responses of a search over these tokens
KeyResponses ==
    {Failed("transport_err"),
     Ok(<<R_net_MUliq>>),
     Ok(<<R_tet_MU>>),
     Ok(<<R_tet_MU, R_net_MUliq>>),
     Ok(<<R_net_MUliq, R_net_MU>>)}

KeyFeeds == [Terms -> KeyResponses]

InitKeys == feed \in KeyFeeds /\ InitLocal

\* one task calling refresh, get_trading_pairs, get_price and get_liquidity
\* over a fixed upstream feed that lists a token "U-liq"
SpecKeys == InitKeys /\ [][NextFetchRead]_vars

\* the pairs of the feed with base symbol `base` and quote symbol `quote`
PairsOf(f, base, quote) ==
    {Converted(FeedRecords(f))[i] :
        i \in PlacesOf(Converted(FeedRecords(f)), base, quote)}

\* C26: price keys and liquidity keys never collide, whatever the token
\* symbols: what get_price(b, q) returns is the price of a pair with base
\* symbol b and quote symbol q, and what get_liquidity(b, q) returns is the
\* liquidity of such a pair.
C26_KeysNeverCollide ==
    /\ (ret.op = "get_price" /\ IsSome(ret.val)) =>
          \E pair \in PairsOf(feed, ret.base, ret.quote) : pair.price = Unwrap(ret.val)
    /\ (ret.op = "get_liquidity" /\ IsSome(ret.val)) =>
          \E pair \in PairsOf(feed, ret.base, ret.quote) : pair.liquidity = Unwrap(ret.val)

=============================================================================
